---- MODULE Spec2Model ----
(***************************************************************************)
(* Anomaly scoring of the notebook Anomaly_Detection.ipynb: the scoring    *)
(* loop (threshold, counter, diff, H) and the helper plot (H > threshold). *)
(*                                                                         *)
(* Images are 2D grids, modelled as sequences of rows (1-indexed here,     *)
(* 0-indexed in numpy; every offset below is relative, so the alignment of *)
(* the convolution window is the same).  Pixel values are the integers     *)
(* 0..255 the notebook obtains with asnumpy()*255.                         *)
(***************************************************************************)
EXTENDS Integers, Sequences, FiniteSets, TLC

VARIABLES pc, dataloader, pos, counter, threshold, img, output, diff, H,
          mask, xy, images, err, loader

\* the names of the scoring cell and of plot
scoreVars == <<pc, dataloader, pos, counter, threshold, img, output, diff, H,
               mask, xy, images, err>>

\* loader: the names of the stacked-frame loading cell, as one record
vars == <<pc, dataloader, pos, counter, threshold, img, output, diff, H,
          mask, xy, images, err, loader>>

\* ---------------------------------------------------------------- bounds
\* largest number of rows / columns of an image
MaxDim == 4
\* largest number of frames of the test sequence
MaxFrames == 2
\* largest number of files the stacked-frame loader is given
MaxFiles == 12
\* largest number n of frames stacked into one sample
MaxStack == 4

\* ------------------------------------------------------------- constants
\* np.ones((4,4)): side of the summation kernel
KernelSize == 4
\* asnumpy()*255: largest pixel value
MaxPixel == 255

\* pixel intensities the inputs are drawn from
PixelValues == {0, 100, MaxPixel}

\* threshold = 4*255
DefaultThreshold == 4 * MaxPixel

\* thresholds plot is called with
Thresholds == {-1, 0, DefaultThreshold}

\* ------------------------------------------------------------ numpy grids
None == <<>>

Shape(g) == <<Len(g), IF Len(g) = 0 THEN 0 ELSE Len(g[1])>>

Cells(g) == {<<i, j>> \in (1..Shape(g)[1]) \X (1..Shape(g)[2]) : TRUE}

Shapes == (1..MaxDim) \X (1..MaxDim)

Uniform(shape, v) == [i \in 1..shape[1] |-> [j \in 1..shape[2] |-> v]]

\* a frame with background bg and a rectangular object of intensity fg
Rects(shape) ==
    {r \in (1..shape[1]) \X (1..shape[1]) \X (1..shape[2]) \X (1..shape[2]) :
        r[1] <= r[2] /\ r[3] <= r[4]}

Frame(shape, bg, fg, r) ==
    [i \in 1..shape[1] |-> [j \in 1..shape[2] |->
        IF r[1] <= i /\ i <= r[2] /\ r[3] <= j /\ j <= r[4] THEN fg ELSE bg]]

FramesOf(shape) ==
    {Uniform(shape, v) : v \in PixelValues}
    \cup {Frame(shape, 0, MaxPixel, r) : r \in Rects(shape)}
    \cup {Frame(shape, 100, MaxPixel, r) : r \in Rects(shape)}

Frames == UNION {FramesOf(s) : s \in Shapes}

\* shapes of a reconstruction handed to the scoring code together with a
\* frame of the given shape: the same shape, one less along both axes, a
\* single row, a single column, a single cell
ReconShapes(shape) ==
    {shape, <<shape[1] - 1, shape[2] - 1>>, <<1, shape[2]>>, <<shape[1], 1>>,
     <<1, 1>>} \cap Shapes

Reconstructions(f) ==
    {f} \cup {Uniform(s, v) : s \in ReconShapes(Shape(f)), v \in {0, MaxPixel}}

\* ------------------------------------------------------------------ sums
RECURSIVE SumTo(_, _)
SumTo(f, n) == IF n = 0 THEN 0 ELSE f[n] + SumTo(f, n - 1)

\* ------------------------------------------------- output - img, np.abs
Broadcastable(s1, s2) ==
    \A d \in 1..2 : s1[d] = s2[d] \/ s1[d] = 1 \/ s2[d] = 1

Max(a, b) == IF a >= b THEN a ELSE b

BroadcastShape(s1, s2) == <<Max(s1[1], s2[1]), Max(s1[2], s2[2])>>

\* the element of g that numpy pairs with cell (i, j) of the broadcast result
Bcast(g, i, j) ==
    g[IF Len(g) = 1 THEN 1 ELSE i][IF Len(g[1]) = 1 THEN 1 ELSE j]

np_subtract(a, b) ==
    LET s == BroadcastShape(Shape(a), Shape(b))
    IN  [i \in 1..s[1] |-> [j \in 1..s[2] |-> Bcast(a, i, j) - Bcast(b, i, j)]]

np_abs_signed(g) == g

np_abs(g) ==
    [i \in 1..Len(g) |-> [j \in 1..Len(g[1]) |->
        IF g[i][j] < 0 THEN 0 - g[i][j] ELSE g[i][j]]]

\* ------------------------------------------------------ signal.convolve2d
np_ones(shape) == Uniform(shape, 1)

\* in1[i][j], zero outside the array (boundary='fill', fillvalue=0)
Padded(in1, i, j) ==
    IF i >= 1 /\ i <= Len(in1) /\ j >= 1 /\ j <= Len(in1[1])
    THEN in1[i][j] ELSE 0

\* cell (m, n) of the full discrete convolution of in1 with in2
FullCell(in1, in2, m, n) ==
    SumTo([k \in 1..Len(in2) |->
             SumTo([l \in 1..Len(in2[1]) |->
                      in2[k][l] * Padded(in1, m - k + 1, n - l + 1)],
                   Len(in2[1]))],
          Len(in2))

convolve2d_full(in1, in2) ==
    [m \in 1..(Len(in1) + Len(in2) - 1) |->
        [n \in 1..(Len(in1[1]) + Len(in2[1]) - 1) |->
            FullCell(in1, in2, m, n)]]

convolve2d_late(in1, in2) ==
    [i \in 1..Len(in1) |-> [j \in 1..Len(in1[1]) |->
        FullCell(in1, in2, i + (Len(in2) \div 2), j + (Len(in2[1]) \div 2))]]

\* mode='same': the size of in1, centred with respect to the full output
convolve2d(in1, in2) ==
    [i \in 1..Len(in1) |-> [j \in 1..Len(in1[1]) |->
        FullCell(in1, in2, i + ((Len(in2) - 1) \div 2),
                           j + ((Len(in2[1]) - 1) \div 2))]]

\* ---------------------------------------------------- H > threshold, where
Greater_or_equal(h, t) ==
    [i \in 1..Len(h) |-> [j \in 1..Len(h[1]) |-> h[i][j] >= t]]

Less(h, t) ==
    [i \in 1..Len(h) |-> [j \in 1..Len(h[1]) |-> h[i][j] < t]]

Greater(h, t) ==
    [i \in 1..Len(h) |-> [j \in 1..Len(h[1]) |-> h[i][j] > t]]

np_where(m) == {c \in Cells(m) : m[c[1]][c[2]]}

\* ------------------------------------------------------------------ plot
\* plot(img, output, diff, H, threshold, counter): marks the cells of H
\* above the threshold and saves images/<counter>.png
PlotEffect(h, t, c) ==
    /\ threshold' = t
    /\ mask' = Greater(h, t)
    /\ xy' = np_where(mask')
    /\ images' = images \cup {c}

\* ------------------------------------------------- stacked-frame loader
\* the loading cell has not run
LoaderIdle ==
    [pc |-> "idle", n |-> 1, files |-> 0, filename |-> 0, i |-> 0, idx |-> 0,
     rows |-> 0, written |-> {}, target |-> <<>>, err |-> "none"]

\* ------------------------------------------- the body of the scoring loop
\* diff = np.abs(output-img) raises ValueError when the two shapes cannot be
\* broadcast together, and nothing after it runs
Raises(in, out) == ~Broadcastable(Shape(out), Shape(in))

\* diff = np.abs(output-img); H = convolve2d(diff, ones((4,4)), 'same')
LoopBody(in, out) ==
    /\ diff' = np_abs(np_subtract(out, in))
    /\ H' = convolve2d(diff', np_ones(<<KernelSize, KernelSize>>))

\* -------------------------------------------------------------- scoring
\* The scoring code applied to one frame and one reconstruction.
Init ==
    /\ pc = "score"
    /\ dataloader = <<>>
    /\ pos = 0
    /\ counter = 1
    /\ threshold = DefaultThreshold
    /\ img \in Frames
    /\ output \in Reconstructions(img)
    /\ diff = None
    /\ H = None
    /\ mask = None
    /\ xy = {}
    /\ images = {}
    /\ err = "none"
    /\ loader = LoaderIdle

\* the body of the loop and the call of plot, for one frame, one
\* reconstruction and one threshold
Score ==
    /\ pc = "score"
    /\ IF Raises(img, output)
       THEN /\ err' = "ValueError"
            /\ pc' = "error"
            /\ UNCHANGED <<diff, H, threshold, mask, xy, images>>
       ELSE /\ LoopBody(img, output)
            /\ \E t \in Thresholds : PlotEffect(H', t, counter)
            /\ err' = "none"
            /\ pc' = "scored"
    /\ UNCHANGED <<dataloader, pos, counter, img, output, loader>>

\* plot called again on the same H with another threshold
Plot(t) ==
    /\ pc = "scored"
    /\ PlotEffect(H, t, counter)
    /\ UNCHANGED <<pc, dataloader, pos, counter, img, output, diff, H, err,
                   loader>>

Next ==
    \/ Score
    \/ \E t \in Thresholds : Plot(t)

Spec == Init /\ [][Next]_vars

\* ---------------------------------------------------------- scoring loop
\* the test images the loop runs over: frames of one size
TestFrames ==
    {Uniform(<<MaxDim, MaxDim>>, v) : v \in PixelValues}
    \cup {Frame(<<MaxDim, MaxDim>>, bg, MaxPixel, <<1, 2, 1, 2>>) : bg \in {0, 100}}

\* model(img): a reconstruction of the shape of img with values in 0..255
ModelOutputs(f) == {f} \cup {Uniform(Shape(f), v) : v \in PixelValues}

RECURSIVE SeqsUpTo(_, _)
SeqsUpTo(S, n) ==
    IF n = 0 THEN {<<>>}
    ELSE LET shorter == SeqsUpTo(S, n - 1)
         IN  shorter \cup {Append(s, x) : s \in shorter, x \in S}

\* threshold = 4*255; counter = 0; the loop is about to start
LoopInit ==
    /\ pc = "loop"
    /\ dataloader \in SeqsUpTo(TestFrames, MaxFrames)
    /\ pos = 0
    /\ counter = 0
    /\ threshold = DefaultThreshold
    /\ img = None
    /\ output = None
    /\ diff = None
    /\ H = None
    /\ mask = None
    /\ xy = {}
    /\ images = {}
    /\ err = "none"
    /\ loader = LoaderIdle

\* for image in dataloader: one pass through the body, which ends with the
\* statement break, so the for statement is left after it
Iterate ==
    /\ pc = "loop"
    /\ pos < Len(dataloader)
    /\ pos' = pos + 1
    /\ counter' = counter + 1
    /\ img' = dataloader[pos + 1]
    /\ output' \in ModelOutputs(img')
    /\ IF Raises(img', output')
       THEN /\ err' = "ValueError"
            /\ pc' = "error"
            /\ UNCHANGED <<diff, H, threshold, mask, xy, images>>
       ELSE /\ LoopBody(img', output')
            /\ PlotEffect(H', threshold, counter')
            /\ err' = "none"
            /\ pc' = "done"
    /\ UNCHANGED <<dataloader, loader>>

\* the dataloader has no image left: the for statement ends
Exhausted ==
    /\ pc = "loop"
    /\ pos = Len(dataloader)
    /\ pc' = "done"
    /\ UNCHANGED <<dataloader, pos, counter, threshold, img, output, diff, H,
                   mask, xy, images, err, loader>>

LoopNext == Iterate \/ Exhausted

LoopSpec == LoopInit /\ [][LoopNext]_vars

\* ------------------------------------------------- stacked-frame loader
\* a = np.zeros((int(len(files)/n), n, 227, 227)): the number of samples
Allocated(files, n) == files \div n

\* a[idx,i,:,:] = ...: numpy raises IndexError when idx or i is not an index
\* of its axis (both are >= 0 here)
InBounds(rows, n, idx, i) == idx < rows /\ i < n

\* the state after a = np.zeros(...); i = 0; idx = 0, for len(files) = files
LoaderStart(files, n) ==
    [pc |-> "load", n |-> n, files |-> files, filename |-> 0, i |-> 0,
     idx |-> 0, rows |-> Allocated(files, n), written |-> {},
     target |-> <<>>, err |-> "none"]

LoaderInit ==
    /\ pc = "idle"
    /\ dataloader = <<>>
    /\ pos = 0
    /\ counter = 0
    /\ threshold = DefaultThreshold
    /\ img = None
    /\ output = None
    /\ diff = None
    /\ H = None
    /\ mask = None
    /\ xy = {}
    /\ images = {}
    /\ err = "none"
    /\ loader \in {LoaderStart(f, n) : f \in 0..MaxFiles, n \in 1..MaxStack}

\* for filename in range(0, len(files)): one pass through the body.  The
\* write a[idx,i,:,:] comes first; when it raises, the cell stops there.
Load ==
    /\ loader.pc = "load"
    /\ loader.filename < loader.files
    /\ IF InBounds(loader.rows, loader.n, loader.idx, loader.i)
       THEN LET i1 == loader.i + 1
            IN  loader' = [loader EXCEPT
                    !.target = <<loader.idx, loader.i>>,
                    !.written = @ \cup {<<loader.idx, loader.i>>},
                    !.i = IF i1 >= loader.n THEN 0 ELSE i1,
                    !.idx = IF i1 >= loader.n THEN @ + 1 ELSE @,
                    !.filename = @ + 1]
       ELSE loader' = [loader EXCEPT
                    !.target = <<loader.idx, loader.i>>,
                    !.err = "IndexError",
                    !.pc = "error"]
    /\ UNCHANGED scoreVars

\* range(0, len(files)) is exhausted
LoadEnd ==
    /\ loader.pc = "load"
    /\ loader.filename = loader.files
    /\ loader' = [loader EXCEPT !.pc = "done"]
    /\ UNCHANGED scoreVars

LoaderNext == Load \/ LoadEnd

LoaderSpec == LoaderInit /\ [][LoaderNext]_vars

\* ================================================================ claims
SameShape == Shape(img) = Shape(output)

IsGrid(g, shape) ==
    /\ Len(g) = shape[1]
    /\ \A i \in 1..Len(g) : Len(g[i]) = shape[2]

\* the cells of d in rows i-2..i+1 and columns j-2..j+1
Window(d, i, j) ==
    {c \in Cells(d) : /\ i - 2 <= c[1] /\ c[1] <= i + 1
                      /\ j - 2 <= c[2] /\ c[2] <= j + 1}

RECURSIVE SumCells(_, _)
SumCells(d, S) ==
    IF S = {} THEN 0
    ELSE LET c == CHOOSE x \in S : TRUE
         IN  d[c[1]][c[2]] + SumCells(d, S \ {c})

NonZero(d, S) == {c \in S : d[c[1]][c[2]] # 0}

\* C1: for equal-shaped frame and reconstruction, every cell of the
\* difference map is |frame - reconstruction| and every cell of the heat-map
\* is the sum of the difference map over rows i-2..i+1 and columns j-2..j+1,
\* cells outside the grid counting 0.
C1_DiffAndHeatmap ==
    (pc = "scored" /\ SameShape) =>
        \A c \in Cells(img) :
            LET i == c[1]
                j == c[2]
            IN  /\ diff[i][j] = IF img[i][j] >= output[i][j]
                                THEN img[i][j] - output[i][j]
                                ELSE output[i][j] - img[i][j]
                /\ H[i][j] = SumCells(diff, Window(diff, i, j))

\* a 4x4 (or larger) scored pair whose difference map has zero and non-zero
\* cells and whose heat-map differs between a padded corner and the interior
C1_Witness ==
    /\ pc = "scored"
    /\ SameShape
    /\ Len(img) >= KernelSize
    /\ Len(img[1]) >= KernelSize
    /\ \E c \in Cells(diff) : diff[c[1]][c[2]] = 0
    /\ H[1][1] > 0
    /\ H[3][3] > H[1][1]

\* C2: scoring a frame against itself with a threshold >= 0 gives a
\* difference map of zeros and flags no cell.
C2_IdenticalInputs ==
    (pc = "scored" /\ output = img /\ threshold >= 0) =>
        /\ IsGrid(diff, Shape(img))
        /\ IsGrid(mask, Shape(img))
        /\ \A c \in Cells(img) : diff[c[1]][c[2]] = 0 /\ ~mask[c[1]][c[2]]
        /\ xy = {}

\* a frame with a bright object scored against itself with threshold 0
C2_Witness ==
    /\ pc = "scored"
    /\ output = img
    /\ threshold = 0
    /\ \E c \in Cells(img) : img[c[1]][c[2]] = MaxPixel
    /\ \E c \in Cells(img) : img[c[1]][c[2]] # MaxPixel

\* C3: for equal-shaped inputs with pixels in 0..255 every cell of the
\* difference map is in 0..255 and every cell of the heat-map in 0..4080.
C3_Ranges ==
    (pc = "scored" /\ SameShape) =>
        /\ \A c \in Cells(diff) : diff[c[1]][c[2]] \in 0..MaxPixel
        /\ \A c \in Cells(H) :
              H[c[1]][c[2]] \in 0..(KernelSize * KernelSize * MaxPixel)

\* the largest heat-map value is reached, next to a smaller padded corner
C3_Witness ==
    /\ pc = "scored"
    /\ SameShape
    /\ \E c \in Cells(H) : H[c[1]][c[2]] = KernelSize * KernelSize * MaxPixel
    /\ H[1][1] < KernelSize * KernelSize * MaxPixel
    /\ H[1][1] > 0

\* C4: plotting the same heat-map again with a threshold that is not
\* smaller (both >= 0) flags no cell that was not flagged before.
C4_ThresholdMonotone ==
    [][(pc = "scored" /\ pc' = "scored" /\ threshold >= 0
          /\ threshold' >= threshold)
        => (/\ xy' \subseteq xy
            /\ \A c \in Cells(mask') : mask'[c[1]][c[2]] => mask[c[1]][c[2]])]_vars

\* the default threshold keeps some of the cells threshold 0 flags and
\* drops others
C4_Witness ==
    /\ pc = "scored"
    /\ threshold = DefaultThreshold
    /\ xy # {}
    /\ \E c \in Cells(H) : H[c[1]][c[2]] > 0 /\ c \notin xy

\* C5: when frame and reconstruction differ in shape the scoring fails and
\* produces no difference map, heat-map or mask.
C5_ShapeMismatchFails ==
    (pc # "score" /\ ~SameShape) =>
        /\ err # "none"
        /\ diff = None
        /\ H = None
        /\ mask = None

\* C6: with a negative threshold the scoring fails and produces no mask.
C6_NegativeThresholdFails ==
    (pc # "score" /\ threshold < 0) => (err # "none" /\ mask = None)

\* C7: for equal-shaped inputs of rows x cols cells, the difference map,
\* the heat-map and the mask have rows x cols cells each, also when rows or
\* cols is smaller than the kernel.
C7_ShapePreserved ==
    (pc = "scored" /\ SameShape) =>
        /\ IsGrid(diff, Shape(img))
        /\ IsGrid(H, Shape(img))
        /\ IsGrid(mask, Shape(img))
        /\ xy \subseteq Cells(img)

\* a grid with fewer rows than the kernel and as many columns as the bound
C7_Witness ==
    /\ pc = "scored"
    /\ SameShape
    /\ Len(img) < KernelSize
    /\ Len(img[1]) = MaxDim
    /\ Len(H) = Len(img)

\* C8: frame 4x4 of 100, reconstruction 4x4 of 0, threshold 1020: the
\* difference map is 100 everywhere, the heat-map is 1600 where the window
\* lies inside the grid, and exactly the cells whose window sum exceeds 1020
\* are flagged; the most padded corner is not.
C8_Example ==
    (/\ pc = "scored"
     /\ img = Uniform(<<4, 4>>, 100)
     /\ output = Uniform(<<4, 4>>, 0)
     /\ threshold = DefaultThreshold) =>
        /\ diff = Uniform(<<4, 4>>, 100)
        /\ \A c \in Cells(H) :
              Cardinality(Window(diff, c[1], c[2])) = KernelSize * KernelSize
                 => H[c[1]][c[2]] = 1600
        /\ H[3][3] = 1600
        /\ H[1][1] = 400
        /\ xy = {<<2, 3>>, <<3, 2>>, <<3, 3>>, <<3, 4>>, <<4, 3>>}
        /\ \A c \in Cells(H) :
              mask[c[1]][c[2]] <=> (SumCells(diff, Window(diff, c[1], c[2]))
                                      > DefaultThreshold)

C8_Witness ==
    /\ pc = "scored"
    /\ img = Uniform(<<4, 4>>, 100)
    /\ output = Uniform(<<4, 4>>, 0)
    /\ threshold = DefaultThreshold
    /\ <<3, 3>> \in xy
    /\ <<1, 1>> \notin xy

\* C9: a cell whose heat-map value equals the threshold is not flagged; with
\* the default threshold a flagged cell has at least 5 non-zero differences
\* in its window, and a difference map with at most 4 non-zero cells flags
\* nothing.
C9_StrictComparison ==
    pc = "scored" =>
        /\ \A c \in Cells(H) :
              /\ H[c[1]][c[2]] = threshold => (c \notin xy /\ ~mask[c[1]][c[2]])
              /\ c \in xy => H[c[1]][c[2]] > threshold
        /\ threshold = DefaultThreshold =>
              /\ \A c \in xy :
                    Cardinality(NonZero(diff, Window(diff, c[1], c[2]))) >= 5
              /\ Cardinality(NonZero(diff, Cells(diff))) <= 4 => xy = {}

\* four pixels of 255 in one window: the heat-map reaches the threshold
\* exactly and no cell is flagged
C9_Witness ==
    /\ pc = "scored"
    /\ threshold = DefaultThreshold
    /\ \E c \in Cells(H) :
          /\ H[c[1]][c[2]] = DefaultThreshold
          /\ Cardinality(NonZero(diff, Window(diff, c[1], c[2]))) = 4
    /\ xy = {}

\* C10: when the loop has ended, every frame k in 1..N of the test sequence
\* has been plotted with counter = k, so that 1.png..N.png exist.
C10_EveryFramePlotted ==
    pc = "done" => images = 1..Len(dataloader)

\* the cursor part of C11 alone: after k files idx = k div n and i = k mod n
LoaderCursor ==
    /\ loader.idx = loader.filename \div loader.n
    /\ loader.i = loader.filename % loader.n

\* C11: in the stacked-frame loader, after k files have been processed
\* idx = k div n and i = k mod n, and every write a[idx, i] targets a slot of
\* the allocated array: idx < floor(L / n) and i < n, also when L is not a
\* multiple of n.
C11_CursorAndWritesInBounds ==
    /\ LoaderCursor
    /\ loader.target # <<>> =>
          /\ loader.target[1] < loader.files \div loader.n
          /\ loader.target[2] < loader.n
    /\ loader.err = "none"

====
